---------------------------- MODULE Spec2Model ----------------------------
(***************************************************************************)
(* A model of the two scripts of the repository:                           *)
(*                                                                         *)
(*   dbscan_anomaly_detection.py  main(): load the transfer log, encode    *)
(*       the hour of day, standardise five feature columns, cluster them   *)
(*       with DBSCAN(eps, min_samples).fit_predict, report the noise rows. *)
(*   DataCreationScript.py  _random_start_finish_in_night_window(): the    *)
(*       start and finish of one outlier transfer.                         *)
(*                                                                         *)
(* Numbers are integers.  A float of the program is held exactly:          *)
(*   - eps is held in tenths (EPS = 0.9 is 9);                             *)
(*   - a standardised value (x - mean) / scale is never formed: a squared  *)
(*     distance between two standardised rows is compared with eps^2 after *)
(*     multiplying both sides by the column variances (WithinEps);         *)
(*   - sin and cos of the hour angle are taken only at the quarter days,   *)
(*     where they are 0, 1 or -1.                                          *)
(* The comparison is the exact one: a floating-point rounding at a         *)
(* distance equal to eps is not modelled.                                  *)
(***************************************************************************)
EXTENDS Integers, Sequences, FiniteSets, TLC

VARIABLES
    raw,            \* the parsed JSON log: the records in file order
    eps,            \* DBSCAN radius in tenths             (EPS)
    min_samples,    \* DBSCAN density threshold            (MIN_SAMPLES)
    pc,             \* position of main()
    df,             \* the DataFrame: one row per record, columns added as main() runs
    features,       \* the selected feature matrix: one record per row
    scaler,         \* StandardScaler fit: per column the variance numerator n*sum(x^2) - sum(x)^2
    neighborhoods,  \* DBSCAN: row -> the rows within eps of it (itself included)
    core_samples,   \* DBSCAN: the rows with at least min_samples neighbours
    labels,         \* DBSCAN: row -> cluster id, -1 while unlabeled / noise
    i,              \* dbscan_inner: the outer loop's row
    cur,            \* dbscan_inner: the row the depth-first search stands on
    stack,          \* dbscan_inner: the rows still to visit
    label_num,      \* dbscan_inner: the id of the cluster being grown
    report,         \* what main() prints: the label counts, the outliers, their number
    alt,            \* a second clustering of the same matrix under other parameters
    gen             \* DataCreationScript: the night-window draw

vars == << raw, eps, min_samples, pc, df, features, scaler, neighborhoods,
           core_samples, labels, i, cur, stack, label_num, report, alt, gen >>

pipeVars == << raw, eps, min_samples, pc, df, features, scaler, neighborhoods,
               core_samples, labels, i, cur, stack, label_num, report >>

-----------------------------------------------------------------------------
(* Bounds of the model *)

\* the most records of a log drawn from the mixed pool (valid and invalid records)
MaxRecords == 3

\* the most rows of a log laid out on a line (records that differ in file_len only)
MaxLine == 7

\* file_len ranges over 1..MaxFileLen in a log laid out on a line
MaxFileLen == 5

\* a file_len occurs at most this often in a log laid out on a line
MaxDup == 2

\* min_samples ranges over 1..MaxMinSamples on the logs of the line
MaxMinSamples == 4

\* min_samples ranges over 0..MaxMixedMinSamples on the mixed logs
MaxMixedMinSamples == 2

\* the night window's date is one of the days 0..MaxDay after 2025-04-01
\* (the program's range has 274 days after it)
MaxDay == 2

-----------------------------------------------------------------------------
(* Program constants *)

\* EPS = 0.9, in tenths
EPS == 9

\* the noise label of DBSCAN
NOISE == -1

-----------------------------------------------------------------------------
(* Helpers over sequences *)

RECURSIVE SumSeq(_)
SumSeq(s) == IF s = << >> THEN 0 ELSE Head(s) + SumSeq(Tail(s))

RECURSIVE ProdSeq(_)
ProdSeq(s) == IF s = << >> THEN 1 ELSE Head(s) * ProdSeq(Tail(s))

\* the elements of a set of integers in ascending order
RECURSIVE Ascending(_)
Ascending(S) ==
    IF S = {} THEN << >>
    ELSE LET m == CHOOSE x \in S : \A y \in S : x <= y
         IN  << m >> \o Ascending(S \ {m})

-----------------------------------------------------------------------------
(* dbscan_anomaly_detection.py: helper functions *)

\* hour_fraction_from_epoch_ms, in seconds of the day (3600 * the fractional hour):
\* dt.hour + dt.minute / 60 + dt.second / 3600; the milliseconds are dropped.
hour_fraction_from_epoch_ms(epoch_ms) ==
    LET s      == epoch_ms \div 1000
        hour   == (s \div 3600) % 24
        minute == (s \div 60) % 60
        second == s % 60
    IN  3600 * hour + 60 * minute + second

\* np.sin(2 * np.pi * hour / 24) at the quarter days
HourSin(h) ==
    CASE h = 0     -> 0
      [] h = 21600 -> 1
      [] h = 43200 -> 0
      [] h = 64800 -> -1

\* np.cos(2 * np.pi * hour / 24) at the quarter days
HourCos(h) ==
    CASE h = 0     -> 1
      [] h = 21600 -> 0
      [] h = 43200 -> -1
      [] h = 64800 -> 0

\* load_data: DataFrame.from_dict(raw, orient="index"): one row per record in file
\* order, one column per key that occurs in some record; a key a record lacks is
\* NaN in its row (here: the key is not in the row's domain).
load_data(log) == log

Columns(frame) == UNION { DOMAIN frame[r] : r \in 1..Len(frame) }

IsNaN(row, col) == col \notin DOMAIN row

-----------------------------------------------------------------------------
(* StandardScaler *)

FEATURE_COLUMNS == << "file_len", "ext_danger", "transfer_delta_s", "hour_sin", "hour_cos" >>

\* n^2 times the population variance of a column: n * sum(x^2) - sum(x)^2.
\* scale_ is its square root over n, or 1 when it is 0 (a constant column).
VarNumerator(col) ==
    Len(col) * SumSeq([r \in 1..Len(col) |-> col[r] * col[r]]) - SumSeq(col) * SumSeq(col)

\* scale_^2 * n^2 with zeros handled
Scale2(fit, c) == IF fit[c] = 0 THEN 1 ELSE fit[c]


\* one column of the feature matrix over the rows that hold a value (NaN is skipped,
\* as StandardScaler's nan-aware mean and variance do)
Present(X, c) == SelectSeq(X, LAMBDA row : ~IsNaN(row, c))

ColumnValues(X, c) == LET rows == Present(X, c) IN [r \in 1..Len(rows) |-> rows[r][c]]

HasNaN(X) == \E r \in 1..Len(X) : \E k \in 1..Len(FEATURE_COLUMNS) : IsNaN(X[r], FEATURE_COLUMNS[k])

\* the squared Euclidean distance of standardised rows a and b is
\*     sum_c (a[c] - b[c])^2 * n^2 / Scale2(c);
\* it is compared with (eps / 10)^2 after multiplying by 100 and by every Scale2(c).
Diff2(X, a, b, k) ==
    LET d == X[a][FEATURE_COLUMNS[k]] - X[b][FEATURE_COLUMNS[k]] IN d * d

Dist2Numerator(X, fit, a, b) ==
    SumSeq([k \in 1..Len(FEATURE_COLUMNS) |->
              Diff2(X, a, b, k)
              * ProdSeq([j \in 1..Len(FEATURE_COLUMNS) |-> IF j = k THEN 1 ELSE Scale2(fit, j)])])

Dist2Denominator(fit) == ProdSeq([k \in 1..Len(FEATURE_COLUMNS) |-> Scale2(fit, k)])

\* radius_neighbors: distance <= eps, the boundary included
WithinEps(X, fit, a, b, radius) ==
    /\ radius >= 0
    /\ 100 * Len(X) * Len(X) * Dist2Numerator(X, fit, a, b)
         <= radius * radius * Dist2Denominator(fit)

RadiusNeighbors(X, fit, radius) ==
    [a \in 1..Len(X) |-> { b \in 1..Len(X) : WithinEps(X, fit, a, b, radius) }]

\* a strict comparison in place of >=
CoreSamplesStrict(nb, ms) == { a \in DOMAIN nb : Cardinality(nb[a]) > ms }

\* the comparison turned round
CoreSamplesReversed(nb, ms) == { a \in DOMAIN nb : Cardinality(nb[a]) <= ms }

\* core_samples = n_neighbors >= min_samples
CoreSamples(nb, ms) == { a \in DOMAIN nb : Cardinality(nb[a]) >= ms }

-----------------------------------------------------------------------------
(* main() of dbscan_anomaly_detection.py, one action per section *)

Errors == { "KeyError", "ValueError", "InvalidParameterError" }

NoReport == [counts |-> << >>, outliers |-> << >>, detected |-> -1, sample |-> << >>]

\* df = load_data(DATA_FILE)
Load ==
    /\ pc = "load"
    /\ df' = load_data(raw)
    /\ pc' = "encode"
    /\ UNCHANGED << raw, eps, min_samples, features, scaler, neighborhoods, core_samples,
                    labels, i, cur, stack, label_num, report, alt, gen >>

\* df["hour"], df["hour_sin"], df["hour_cos"]: a log no record of which has
\* transfer_start_ms (the empty log is one) has no such column: KeyError;
\* a row where it is NaN: datetime.fromtimestamp raises ValueError.
Encode ==
    /\ pc = "encode"
    /\ IF "transfer_start_ms" \notin Columns(df)
       THEN pc' = "KeyError" /\ df' = df
       ELSE IF \E r \in 1..Len(df) : IsNaN(df[r], "transfer_start_ms")
       THEN pc' = "ValueError" /\ df' = df
       ELSE /\ df' = [r \in 1..Len(df) |->
                        LET h == hour_fraction_from_epoch_ms(df[r]["transfer_start_ms"])
                        IN  df[r] @@ ("hour" :> h) @@ ("hour_sin" :> HourSin(h))
                                  @@ ("hour_cos" :> HourCos(h))]
            /\ pc' = "select"
    /\ UNCHANGED << raw, eps, min_samples, features, scaler, neighborhoods, core_samples,
                    labels, i, cur, stack, label_num, report, alt, gen >>

\* features = df[[...]]: KeyError when a feature column is in no record
Select ==
    /\ pc = "select"
    /\ IF \E k \in 1..Len(FEATURE_COLUMNS) : FEATURE_COLUMNS[k] \notin Columns(df)
       THEN pc' = "KeyError" /\ features' = features
       ELSE /\ features' = [r \in 1..Len(df) |->
                              [c \in { FEATURE_COLUMNS[k] : k \in 1..Len(FEATURE_COLUMNS) }
                                      \cap DOMAIN df[r] |-> df[r][c]]]
            /\ pc' = "scale"
    /\ UNCHANGED << raw, eps, min_samples, df, scaler, neighborhoods, core_samples,
                    labels, i, cur, stack, label_num, report, alt, gen >>

\* X = scaler.fit_transform(features): NaN passes through
Scale ==
    /\ pc = "scale"
    /\ scaler' = [k \in 1..Len(FEATURE_COLUMNS) |->
                    VarNumerator(ColumnValues(features, FEATURE_COLUMNS[k]))]
    /\ pc' = "fit"
    /\ UNCHANGED << raw, eps, min_samples, df, features, neighborhoods, core_samples,
                    labels, i, cur, stack, label_num, report, alt, gen >>

\* the validation without the test of eps
ParamsValidAnyEps(radius, ms) == ms >= 1

\* DBSCAN.fit validates its parameters (eps > 0, min_samples >= 1), then X (no NaN)
ParamsValid(radius, ms) == radius > 0 /\ ms >= 1

\* dbscan.fit_predict(X) up to the call of dbscan_inner
Fit ==
    /\ pc = "fit"
    /\ IF ~ParamsValid(eps, min_samples)
       THEN pc' = "InvalidParameterError"
            /\ UNCHANGED << neighborhoods, core_samples, labels, i >>
       ELSE IF HasNaN(features)
       THEN pc' = "ValueError"
            /\ UNCHANGED << neighborhoods, core_samples, labels, i >>
       ELSE /\ neighborhoods' = RadiusNeighbors(features, scaler, eps)
            /\ core_samples' = CoreSamples(neighborhoods', min_samples)
            /\ labels' = [r \in 1..Len(features) |-> NOISE]
            /\ i' = 1
            /\ pc' = "visit"
    /\ UNCHANGED << raw, eps, min_samples, df, features, scaler,
                    cur, stack, label_num, report, alt, gen >>


-----------------------------------------------------------------------------
(* dbscan_inner (sklearn/cluster/_dbscan_inner.pyx), as called by fit_predict:    *)
(*                                                                                *)
(*   label_num = 0; stack = []                                                    *)
(*   for i in range(n):                                                           *)
(*       if labels[i] != -1 or not is_core[i]: continue                           *)
(*       while True:                                                              *)
(*           if labels[i] == -1:                                                  *)
(*               labels[i] = label_num                                            *)
(*               if is_core[i]:                                                   *)
(*                   for v in neighborhoods[i]:                                   *)
(*                       if labels[v] == -1: stack.push(v)                        *)
(*           if stack is empty: break                                             *)
(*           i = stack.pop()                                                      *)
(*       label_num += 1                                                           *)
(*                                                                                *)
(* The loop state is a record st = [labels, i, cur, stack, label_num, pc]; the    *)
(* for loop's counter is i, the row the while loop stands on is cur.  Rows are    *)
(* numbered from 1, labels from 0.  A neighborhood is walked in index order; the  *)
(* final labels do not depend on that order, since a cluster is grown to its end  *)
(* before the next one starts.                                                    *)

\* the for loop moves to row k, or ends
Advance(st, k) ==
    [st EXCEPT !.i = k, !.pc = IF k > Len(st.labels) THEN "report" ELSE "visit"]

\* the first core row from k on, or the row after the last
RECURSIVE NextCore(_, _, _)
NextCore(lab, core, k) ==
    IF k > Len(lab) \/ k \in core THEN k ELSE NextCore(lab, core, k + 1)

\* the for loop's head without the test labels[i] != -1: a labeled core row
\* starts a search of its own
VisitStepNoSkip(st, core) ==
    LET k == NextCore(st.labels, core, st.i)
    IN  IF k > Len(st.labels)
        THEN Advance(st, k)
        ELSE [st EXCEPT !.i = k, !.cur = k, !.pc = "dfs"]

\* the first row from k on that the for loop does not pass over, or the row after
\* the last: `if labels[i] != -1 or not is_core[i]: continue`
RECURSIVE NextSeed(_, _, _)
NextSeed(lab, core, k) ==
    IF k > Len(lab) \/ (lab[k] = NOISE /\ k \in core) THEN k ELSE NextSeed(lab, core, k + 1)

\* the for loop from row i on: the rows that are labeled or not core are passed
\* over, the while loop is entered at the first row that is neither
VisitStep(st, core) ==
    LET k == NextSeed(st.labels, core, st.i)
    IN  IF k > Len(st.labels)
        THEN Advance(st, k)
        ELSE [st EXCEPT !.i = k, !.cur = k, !.pc = "dfs"]

\* the neighbours of row a that are still unlabeled, in index order
Unlabeled(lab, nb, a) == Ascending({ v \in nb[a] : lab[v] = NOISE })

\* labels[i] = label_num
Assign(lab, a, id) == [lab EXCEPT ![a] = id]

\* the while loop's body taking every row off the stack into the cluster being
\* grown, labeled or not, and pushing every neighbour outside that cluster
ExpandStepRelabel(st, nb, core) ==
    LET lab    == Assign(st.labels, st.cur, st.label_num)
        pushed == IF st.labels[st.cur] # st.label_num /\ st.cur \in core
                  THEN st.stack \o Ascending({ v \in nb[st.cur] : lab[v] # st.label_num })
                  ELSE st.stack
    IN  IF pushed = << >>
        THEN Advance([st EXCEPT !.labels = lab, !.stack = pushed,
                                !.label_num = st.label_num + 1], st.i + 1)
        ELSE [st EXCEPT !.labels = lab,
                        !.cur = pushed[Len(pushed)],
                        !.stack = SubSeq(pushed, 1, Len(pushed) - 1)]

\* the search going on through every row, core or not
ExpandsAlways(core, a) == TRUE

\* if is_core[i]: only a core row's neighbours are pushed
Expands(core, a) == a \in core

\* one pass of the while loop's body
ExpandStep(st, nb, core) ==
    LET fresh  == st.labels[st.cur] = NOISE
        lab    == IF fresh THEN Assign(st.labels, st.cur, st.label_num) ELSE st.labels
        pushed == IF fresh /\ Expands(core, st.cur)
                  THEN st.stack \o Unlabeled(lab, nb, st.cur)
                  ELSE st.stack
    IN  IF pushed = << >>
        THEN Advance([st EXCEPT !.labels = lab, !.stack = pushed,
                                !.label_num = st.label_num + 1], st.i + 1)
        ELSE [st EXCEPT !.labels = lab,
                        !.cur = pushed[Len(pushed)],
                        !.stack = SubSeq(pushed, 1, Len(pushed) - 1)]

InnerState == [labels |-> labels, i |-> i, cur |-> cur, stack |-> stack,
               label_num |-> label_num, pc |-> pc]

SetInner(st) ==
    /\ labels' = st.labels
    /\ i' = st.i
    /\ cur' = st.cur
    /\ stack' = st.stack
    /\ label_num' = st.label_num
    /\ pc' = st.pc

\* a log of no rows never gets here (Encode raises KeyError), so row 1 exists
Visit ==
    /\ pc = "visit"
    /\ SetInner(VisitStep(InnerState, core_samples))
    /\ UNCHANGED << raw, eps, min_samples, df, features, scaler, neighborhoods,
                    core_samples, report, alt, gen >>

Expand ==
    /\ pc = "dfs"
    /\ SetInner(ExpandStep(InnerState, neighborhoods, core_samples))
    /\ UNCHANGED << raw, eps, min_samples, df, features, scaler, neighborhoods,
                    core_samples, report, alt, gen >>

\* dbscan_inner run to its end
RECURSIVE RunInner(_, _, _)
RunInner(st, nb, core) ==
    IF st.pc = "visit" THEN RunInner(VisitStep(st, core), nb, core)
    ELSE IF st.pc = "dfs" THEN RunInner(ExpandStep(st, nb, core), nb, core)
    ELSE st

\* the labels DBSCAN(eps=radius, min_samples=ms).fit_predict gives the scaled matrix
FitPredict(X, fit, radius, ms) ==
    LET nb == RadiusNeighbors(X, fit, radius)
    IN  RunInner([labels |-> [r \in 1..Len(X) |-> NOISE], i |-> 1, cur |-> 0,
                  stack |-> << >>, label_num |-> 0,
                  pc |-> IF Len(X) = 0 THEN "report" ELSE "visit"],
                 nb, CoreSamples(nb, ms)).labels

-----------------------------------------------------------------------------
(* The results summary of main() *)

LabelsOf(lab) == { lab[r] : r \in DOMAIN lab }

CountOf(lab, id) == Cardinality({ r \in DOMAIN lab : lab[r] = id })

\* df["cluster"].value_counts().sort_index(): one line per label that occurs
value_counts(lab) ==
    LET ids == Ascending(LabelsOf(lab))
    IN  [k \in 1..Len(ids) |-> [label |-> ids[k], count |-> CountOf(lab, ids[k])]]

\* the rows of cluster 0 in place of the noise rows
OutliersOfClusterZero(frame) == SelectSeq(frame, LAMBDA row : row["cluster"] = 0)

\* df[df["cluster"] == -1]: the noise rows, in row order, with every column
Outliers(frame) == SelectSeq(frame, LAMBDA row : row["cluster"] = NOISE)

\* outliers[["file_len", "ext_danger", "transfer_delta_s", "hour"]].head()
SampleOf(rows) ==
    [k \in 1..(IF Len(rows) < 5 THEN Len(rows) ELSE 5) |->
        [c \in { "file_len", "ext_danger", "transfer_delta_s", "hour" } |-> rows[k][c]]]

\* df["cluster"] = labels, the printed summary, and the CSV
Report ==
    /\ pc = "report"
    /\ df' = [r \in 1..Len(df) |-> df[r] @@ ("cluster" :> labels[r])]
    /\ report' = [counts   |-> value_counts(labels),
                  outliers |-> Outliers(df'),
                  detected |-> Len(Outliers(df')),
                  sample   |-> SampleOf(Outliers(df'))]
    /\ pc' = "done"
    /\ UNCHANGED << raw, eps, min_samples, features, scaler, neighborhoods, core_samples,
                    labels, i, cur, stack, label_num, alt, gen >>

-----------------------------------------------------------------------------
(* The logs the model runs on *)

HOUR_MS == 3600 * 1000

\* a record as DataCreationScript._record_from_times writes it (the enrichment
\* fields transfer_hour and work_weight, which main() never reads, are left out)
Record(file_len, ext_danger, success, start_ms, finish_ms) ==
    [ext_id |-> 1, file_len |-> file_len, ext_danger |-> ext_danger, success |-> success,
     transfer_start_ms |-> start_ms, transfer_finish_ms |-> finish_ms,
     transfer_delta_s |-> (finish_ms - start_ms) \div 1000]

Without(rec, key) == [k \in DOMAIN rec \ {key} |-> rec[k]]

ValidRecords ==
    { Record(1, 0, 1, 6 * HOUR_MS, 6 * HOUR_MS + 1000),
      Record(2, 1, 0, 12 * HOUR_MS, 12 * HOUR_MS + 2000) }

\* records that break the schema: ext_danger outside [0, 1], success outside {0, 1},
\* finish before start, a required field missing
InvalidRecords ==
    { Record(1, 2, 1, 6 * HOUR_MS, 6 * HOUR_MS + 1000),
      Record(2, 1, 2, 12 * HOUR_MS, 12 * HOUR_MS + 2000),
      Record(1, 0, 1, 18 * HOUR_MS, 18 * HOUR_MS - 1000),
      Without(Record(1, 0, 1, 6 * HOUR_MS, 6 * HOUR_MS + 1000), "file_len"),
      Without(Record(2, 1, 0, 12 * HOUR_MS, 12 * HOUR_MS + 2000), "transfer_start_ms") }

SeqsUpTo(S, n) == UNION { [1..k -> S] : k \in 0..n }

\* every log of at most MaxRecords records, valid or not
MixedLogs == SeqsUpTo(ValidRecords \cup InvalidRecords, MaxRecords)

\* a record of the line: only file_len varies, so the standardised rows lie on a line
LineRecord(file_len) == Record(file_len, 0, 1, 6 * HOUR_MS, 6 * HOUR_MS + 1000)

\* the sorted sequence holding value v exactly mult[v] times, v = lo..hi
RECURSIVE Sorted(_, _, _)
Sorted(mult, lo, hi) ==
    IF lo > hi THEN << >>
    ELSE [k \in 1..mult[lo] |-> lo] \o Sorted(mult, lo + 1, hi)

Rotate(s, k) == SubSeq(s, k + 1, Len(s)) \o SubSeq(s, 1, k)

\* the logs on the line: at most MaxLine records, each file_len at most MaxDup times,
\* in ascending file_len order rotated by any number of places.  The smallest
\* file_len is 1: standardising subtracts the column mean, so a log and the same
\* log with every file_len shifted give the same scaled matrix.
SortedLines ==
    { Sorted(mult, 1, MaxFileLen) :
        mult \in { m \in [1..MaxFileLen -> 0..MaxDup] :
                     /\ SumSeq([v \in 1..MaxFileLen |-> m[v]]) <= MaxLine
                     /\ m[1] = 0 => \A v \in 1..MaxFileLen : m[v] = 0 } }

LineLog(s) == [r \in 1..Len(s) |-> LineRecord(s[r])]

LineLogs == { LineLog(s) : s \in UNION { { Rotate(t, k) : k \in 0..Len(t) } : t \in SortedLines } }

\* the logs on the line in ascending file_len order
SortedLogs == { LineLog(s) : s \in SortedLines }

NoGen == [pc |-> "off"]

NoAlt == [eps |-> 0, min_samples |-> 0, noise |-> -1]

InitWith(log, radius, ms) ==
    /\ raw = log
    /\ eps = radius
    /\ min_samples = ms
    /\ pc = "load"
    /\ df = << >>
    /\ features = << >>
    /\ scaler = << >>
    /\ neighborhoods = << >>
    /\ core_samples = {}
    /\ labels = << >>
    /\ i = 0
    /\ cur = 0
    /\ stack = << >>
    /\ label_num = 0
    /\ report = NoReport
    /\ alt = NoAlt
    /\ gen = NoGen

\* the whole pipeline on mixed logs, under valid and invalid parameters
Init ==
    \E log \in MixedLogs, radius \in {-10, 0, EPS, 20}, ms \in 0..MaxMixedMinSamples :
        InitWith(log, radius, ms)

\* the pipeline on the logs of the line with the program's EPS, and on the sorted
\* ones with twice it
InitLine ==
    \/ \E log \in LineLogs, ms \in 1..MaxMinSamples : InitWith(log, EPS, ms)
    \/ \E log \in SortedLogs, ms \in 1..MaxMinSamples : InitWith(log, 2 * EPS, ms)

\* the pipeline on the sorted logs of the line, with the program's EPS and twice it
InitSorted ==
    \E log \in SortedLogs, radius \in {EPS, 2 * EPS}, ms \in 1..MaxMinSamples :
        InitWith(log, radius, ms)

\* The same scaled matrix clustered again with a radius at least as large and a
\* density threshold at most as large; the noise count of that run is kept in alt.
Recluster ==
    /\ pc = "done"
    /\ alt = NoAlt
    /\ \E radius \in {EPS, 2 * EPS}, ms \in 1..MaxMinSamples :
         /\ radius >= eps
         /\ ms <= min_samples
         /\ alt' = [eps |-> radius, min_samples |-> ms,
                    noise |-> CountOf(FitPredict(features, scaler, radius, ms), NOISE)]
    /\ UNCHANGED << pipeVars, gen >>

Next == Load \/ Encode \/ Select \/ Scale \/ Fit \/ Visit \/ Expand \/ Report

Spec == Init /\ [][Next]_vars

SpecLine == InitLine /\ [][Next]_vars

NextMono == Next \/ Recluster

SpecMono == InitSorted /\ [][NextMono]_vars


-----------------------------------------------------------------------------
(* DataCreationScript.py: _random_start_finish_in_night_window                    *)
(*                                                                                *)
(* A datetime is the number of milliseconds since 2025-04-01 00:00:00.000, the    *)
(* first day of DATE_RANGE_2025_FROM_APRIL.  random.randint draws are taken from  *)
(* the ends and the middle of their ranges.                                       *)

DAY_MS == 24 * HOUR_MS

\* datetime.combine(d, time(h, m, s, us)) for day d of the range
Combine(d, h, m, sec, ms) == d * DAY_MS + h * HOUR_MS + m * 60 * 1000 + sec * 1000 + ms

\* the days _random_date_in_range may return: the late segment draws from the whole
\* range, the early one from a range that starts a day later (date(2025, 4, 2))
SegmentDays(segment) == IF segment = "late" THEN 0..MaxDay ELSE 1..MaxDay

SegStart(segment, d) ==
    IF segment = "late" THEN Combine(d, 23, 0, 0, 0) ELSE Combine(d, 0, 0, 0, 0)

\* time(23, 59, 59, 999000) and time(3, 59, 59, 999000)
SegEnd(segment, d) ==
    IF segment = "late" THEN Combine(d, 23, 59, 59, 999) ELSE Combine(d, 3, 59, 59, 999)

\* the largest start_offset_sec: 59 * 60 + 59, or 3 * 3600 + 59 * 60 + 59
MaxOffsetSec(segment) ==
    IF segment = "late" THEN 59 * 60 + 59 ELSE 3 * 3600 + 59 * 60 + 59

\* values drawn from lo..hi: both ends, their neighbours and the middle
Sample(lo, hi) == { lo, lo + 1, (lo + hi) \div 2, hi - 1, hi } \cap lo..hi

\* max(1000, int((seg_end - start_dt).total_seconds() * 1000)): the product is a
\* float and int() truncates it, so the integer is the number of milliseconds left
\* or one below it
MaxDurationMs(left) == { IF t < 1000 THEN 1000 ELSE t : t \in { left, left - 1 } \cap Nat }

Min(a, b) == IF a <= b THEN a ELSE b

\* segment, d, seg_start, seg_end, start_offset_sec, start_ms, start_dt
ChooseStart ==
    /\ gen.pc = "segment"
    /\ \E segment \in { "late", "early" } :
         \E d \in SegmentDays(segment),
            start_offset_sec \in Sample(0, MaxOffsetSec(segment)),
            start_ms \in Sample(0, 999) :
              gen' = [pc        |-> "duration",
                      segment   |-> segment,
                      seg_start |-> SegStart(segment, d),
                      seg_end   |-> SegEnd(segment, d),
                      start_dt  |-> SegStart(segment, d) + start_offset_sec * 1000 + start_ms,
                      finish_dt |-> 0]
    /\ UNCHANGED << pipeVars, alt >>

\* max_duration_ms, duration_ms, finish_dt; return start_dt, finish_dt
ChooseFinish ==
    /\ gen.pc = "duration"
    /\ \E max_duration_ms \in MaxDurationMs(gen.seg_end - gen.start_dt) :
         \E duration_ms \in Sample(1000, Min(120000, max_duration_ms)) :
              gen' = [gen EXCEPT !.pc = "returned", !.finish_dt = gen.start_dt + duration_ms]
    /\ UNCHANGED << pipeVars, alt >>

\* one call of _random_start_finish_in_night_window; main() of the other script idle
InitGen ==
    /\ gen = [pc |-> "segment", segment |-> "", seg_start |-> 0, seg_end |-> 0,
              start_dt |-> 0, finish_dt |-> 0]
    /\ raw = << >>
    /\ eps = EPS
    /\ min_samples = 1
    /\ pc = "idle"
    /\ df = << >>
    /\ features = << >>
    /\ scaler = << >>
    /\ neighborhoods = << >>
    /\ core_samples = {}
    /\ labels = << >>
    /\ i = 0
    /\ cur = 0
    /\ stack = << >>
    /\ label_num = 0
    /\ report = NoReport
    /\ alt = NoAlt

NextGen == ChooseStart \/ ChooseFinish

SpecGen == InitGen /\ [][NextGen]_vars

-----------------------------------------------------------------------------
(* C10 -- every (start, finish) pair _random_start_finish_in_night_window returns *)
(* lies inside the chosen segment: start and finish are both between the          *)
(* segment's first and last millisecond of the same day (23:00:00.000 to          *)
(* 23:59:59.999, or 00:00:00.000 to 03:59:59.999), and the duration is at least   *)
(* 1000 ms.                                                                       *)
C10_StaysInSegment ==
    gen.pc = "returned" =>
        /\ gen.seg_start <= gen.start_dt /\ gen.start_dt <= gen.seg_end
        /\ gen.seg_start <= gen.finish_dt /\ gen.finish_dt <= gen.seg_end
        /\ gen.finish_dt - gen.start_dt >= 1000


-----------------------------------------------------------------------------
(* The clusterer's contract, stated over the scaled matrix and the parameters     *)

Rows == 1..Len(features)

\* the clusterer has returned, main() is about to report: the labels are final
Finished == pc = "report"

\* the rows within distance eps of row p, p included: what fit() computed, which
\* C1 compares with the distances
EpsNeighborhood(p) == neighborhoods[p]

NeighborhoodsAreClosedBalls ==
    \A p \in Rows :
        neighborhoods[p] = { q \in Rows : WithinEps(features, scaler, p, q, eps) }

\* the rows whose eps-neighborhood holds at least min_samples rows
CorePoints == { p \in Rows : Cardinality(EpsNeighborhood(p)) >= min_samples }

\* the core points a chain of core points, each within eps of the next, joins to S
RECURSIVE Chained(_, _)
Chained(S, core) ==
    LET T == S \cup { q \in core : \E p \in S : q \in EpsNeighborhood(p) }
    IN  IF T = S THEN S ELSE Chained(T, core)

\* the density-connected cluster of each core point, as a set of core points
Components == LET core == CorePoints IN [p \in core |-> Chained({p}, core)] @@ << >>

Lowest(S) == CHOOSE x \in S : \A y \in S : x <= y

\* the core points that have row b in their eps-neighborhood
CoresNear(b) == { c \in CorePoints : b \in EpsNeighborhood(c) }

(* C1 -- when the clusterer has finished (eps > 0, min_samples >= 1), a row is    *)
(* labeled -1 if and only if no core point has it in its eps-neighborhood, and    *)
(* every other row has a label >= 0.                                              *)
C1_NoiseIffUnreachable ==
    Finished =>
        /\ NeighborhoodsAreClosedBalls
        /\ \A r \in Rows :
              /\ labels[r] = NOISE <=> CoresNear(r) = {}
              /\ labels[r] # NOISE => labels[r] >= 0

\* a finished run with a noise row, a labeled border row and a core row
C1_Witness ==
    /\ Finished
    /\ \E r \in Rows : labels[r] = NOISE
    /\ \E r \in Rows \ CorePoints : labels[r] >= 0
    /\ CorePoints # {}

(* C2 -- when the clusterer has finished, two core points have the same label if  *)
(* and only if a chain of core points, each within eps of the next, joins them.   *)
C2_SameLabelIffChained ==
    Finished =>
        LET comp == Components
        IN  \A p \in DOMAIN comp : \A q \in DOMAIN comp :
                labels[p] = labels[q] <=> q \in comp[p]

\* a finished run with two clusters, one of which holds two core points that are
\* not within eps of each other (a chain is needed to join them)
C2_Witness ==
    /\ Finished
    /\ \E p \in CorePoints : \E q \in CorePoints : labels[p] # labels[q]
    /\ \E p \in CorePoints : \E q \in CorePoints :
           labels[p] = labels[q] /\ q \notin EpsNeighborhood(p)

\* the border rows near core points of two or more clusters
TiedBordersOf(comp) ==
    { b \in Rows \ DOMAIN comp : \E c \in CoresNear(b) : \E d \in CoresNear(b) : d \notin comp[c] }

TiedBorders == TiedBordersOf(Components)

\* among the core points near b, one of the cluster the for loop reaches first: the
\* cluster whose lowest row comes first
FirstDiscovered(comp, b) ==
    CHOOSE c \in CoresNear(b) :
        \A d \in CoresNear(b) : Lowest(comp[c]) <= Lowest(comp[d])

C3_TieBreak ==
    Finished =>
        LET comp == Components
        IN  \A b \in TiedBordersOf(comp) : labels[b] = labels[FirstDiscovered(comp, b)]

C3_NeverRelabeled ==
    \A r \in DOMAIN labels :
        labels[r] # NOISE => r \in DOMAIN labels' /\ labels'[r] = labels[r]

(* C3 -- with the rows taken in ascending index, a border row that lies in the    *)
(* eps-neighborhood of core points of two or more clusters ends with the label of *)
(* the cluster discovered first, and no step changes a label once it is assigned. *)
C3_FirstClusterKeepsBorder == [] C3_TieBreak /\ [][C3_NeverRelabeled]_vars

\* a finished run with a border row between two clusters, the second of which
\* reached it too
C3_Witness ==
    /\ Finished
    /\ \E b \in TiedBorders : \E c \in CoresNear(b) : labels[c] > labels[b]

\* the clusters of the run: the density-connected classes of the core points
Clusters == LET comp == Components IN { comp[p] : p \in DOMAIN comp }

(* C4 -- when the clusterer has finished with k clusters, the labels >= 0 in use  *)
(* are exactly 0..k-1, and of two clusters the one whose lowest core row comes    *)
(* first has the smaller id.                                                      *)
C4_IdsInDiscoveryOrder ==
    Finished =>
        LET comp == Components
        IN  /\ LabelsOf(labels) \ {NOISE} = 0..(Cardinality({ comp[p] : p \in DOMAIN comp }) - 1)
            /\ \A p \in DOMAIN comp : \A q \in DOMAIN comp :
                   Lowest(comp[p]) < Lowest(comp[q]) => labels[p] < labels[q]

\* a finished run with three clusters or more, where a row of a later cluster
\* comes before a row of an earlier one
C4_Witness ==
    /\ Finished
    /\ Cardinality(Clusters) >= 3
    /\ \E p \in Rows : \E q \in Rows : p < q /\ labels[p] > labels[q] /\ labels[q] >= 0

(* C5 -- for one scaled matrix, eps1 <= eps2 and min_samples1 >= min_samples2:    *)
(* the run under (eps1, min_samples1) labels at least as many rows noise as the   *)
(* run under (eps2, min_samples2).                                                *)
C5_NoiseMonotone ==
    alt # NoAlt => CountOf(labels, NOISE) >= alt.noise

\* a second run with a larger radius and a smaller threshold that has fewer noise
\* rows, but still some
C5_Witness ==
    /\ alt # NoAlt
    /\ alt.eps > eps
    /\ alt.min_samples < min_samples
    /\ CountOf(labels, NOISE) > alt.noise
    /\ alt.noise > 0


-----------------------------------------------------------------------------
(* The schema of a TransferRecord *)

REQUIRED_FIELDS == { "file_len", "ext_danger", "transfer_delta_s", "transfer_start_ms" }

SchemaOK(rec) ==
    /\ REQUIRED_FIELDS \subseteq DOMAIN rec
    /\ rec["ext_danger"] >= 0 /\ rec["ext_danger"] <= 1
    /\ "success" \in DOMAIN rec => rec["success"] \in {0, 1}
    /\ "transfer_finish_ms" \in DOMAIN rec => rec["transfer_finish_ms"] >= rec["transfer_start_ms"]

\* a log of one record or more, every one of them within the schema
SoundLog == raw # << >> /\ \A r \in 1..Len(raw) : SchemaOK(raw[r])

C6_NeverClusters ==
    eps <= 0 =>
        /\ pc \in { "load", "encode", "select", "scale", "fit" } \cup Errors
        /\ labels = << >>
        /\ report = NoReport

\* (a matrix with a NaN is refused as well: which of the two errors is raised
\* first is not part of the statement)
C6_FitRaises ==
    (eps <= 0 /\ pc = "fit") =>
        /\ pc' \in Errors
        /\ ~HasNaN(features) => pc' = "InvalidParameterError"

C7_InvalidRecordNeverLabeled ==
    \A r \in 1..Len(raw) : ~SchemaOK(raw[r]) => pc # "done"

(* C8 -- a log of zero records short-circuits to an empty result: the run does    *)
(* not end in an error.                                                           *)
C8_EmptyLogNoError ==
    raw = << >> => pc \notin Errors

\* the noise rows, in row order
NoiseRows == Ascending({ r \in DOMAIN labels : labels[r] = NOISE })

(* C9 -- the report of a finished run holds one count for every label that        *)
(* occurs, the counts sum to the number of records, the outliers are exactly the  *)
(* noise rows in input order with their original fields, and their number is the  *)
(* count reported for noise (the "Detected" line, and the -1 line of the counts   *)
(* when a noise row exists).                                                      *)
C9_ReportMatchesLabels ==
    pc = "done" =>
        LET counts == report.counts
            noise  == NoiseRows
        IN  /\ { counts[k].label : k \in 1..Len(counts) } = LabelsOf(labels)
            /\ \A k \in 1..Len(counts) : counts[k].count = CountOf(labels, counts[k].label)
            /\ \A k \in 1..Len(counts) : \A j \in 1..Len(counts) :
                   k < j => counts[k].label < counts[j].label
            /\ SumSeq([k \in 1..Len(counts) |-> counts[k].count]) = Len(raw)
            /\ Len(report.outliers) = Len(noise)
            /\ \A k \in 1..Len(noise) :
                   /\ DOMAIN raw[noise[k]] \subseteq DOMAIN report.outliers[k]
                   /\ \A f \in DOMAIN raw[noise[k]] :
                          report.outliers[k][f] = raw[noise[k]][f]
                   /\ report.outliers[k]["cluster"] = NOISE
            /\ report.detected = Len(noise)
            /\ \A k \in 1..Len(counts) :
                   counts[k].label = NOISE => counts[k].count = report.detected

\* a report with two clusters and two noise rows that differ and are not adjacent
C9_Witness ==
    /\ pc = "done"
    /\ report.detected >= 2
    /\ {0, 1} \subseteq LabelsOf(labels)
    /\ \E a \in DOMAIN labels : \E b \in DOMAIN labels : \E c \in DOMAIN labels :
           /\ a < b /\ b < c
           /\ labels[a] = NOISE /\ labels[b] >= 0 /\ labels[c] = NOISE
           /\ raw[a] # raw[c]

=============================================================================
